---- MODULE Spec2Model ----
(***************************************************************************)
(* Artifact retrieval pipeline of allure/rawAllure.go: getFolder, then     *)
(* GetArtifacts with its tree walker, bounded download pool, failure sink  *)
(* and completion barrier, followed by relocateContents and                *)
(* updateJsonPaths.                                                        *)
(*                                                                         *)
(* Paths and artifact ids are sequences of segments (the string split on   *)
(* "/"); local paths are relative to whereToSave, so << >> is the root.    *)
(***************************************************************************)
EXTENDS Integers, Sequences, FiniteSets, TLC

VARIABLES
    mainPc,        \* position of the goroutine running GetArtifacts
    rootFolders,   \* result of getFolder(token, runId)
    rootIdx,       \* index of the range loop over *rootFolders
    walk,          \* call stack of getFoldersRecursively
    sem,           \* number of tokens in the buffered channel sem
    holders,       \* the download goroutines whose token is in sem
    wg,            \* counter of the sync.WaitGroup
    errorsClosed,  \* close(errors) has run
    sinkPc,        \* position of the goroutine ranging over errors
    taskPc,        \* position of each download goroutine, by file id
    taskErr,       \* the err each download goroutine got from downloadFile
    reported,      \* errors the sink goroutine received, with their sender
    panic,         \* the statement whose panic ended the process, or "none"
    faultsLeft,    \* failures the environment may still inject
    nFiles,        \* number of files the remote tree holds
    listFailed,    \* history: some listing in the tree walker failed
    listed,        \* history: folder ids the tree walker requested a listing of
    peakRootWalks, \* history: most root folders under expansion at one time
    failedRequests,\* history: file ids whose content request got no response
    attempts,      \* history: calls of downloadFile per file id
    files,         \* local regular files: path -> content
    dirs,          \* local directories (the root << >> always exists)
    relocated,     \* history: how relocateContents ended
    beforeRelocate,\* history: the local tree when relocateContents started
    repairs,       \* history: number of updateJsonPaths runs
    beforeRepair,  \* history: the local files when updateJsonPaths last started
    gfPc,          \* position of getFolder
    gfI,           \* loop counter i of getFolder
    expectedFolders,      \* names of getFolder's map whose value is true
    lastRetrievedFolders, \* getFolder's remembered listing
    gfResult,      \* the slice getFolder returned
    gfHistory,     \* history: the response of every attempt of getFolder
    dlPc,          \* position of a single call of downloadFile
    dlFileID,      \* its argument fileID, as a sequence of characters
    requestKey,    \* the key= value of the content request it sent
    dlDirs,        \* the directories that exist, as path strings
    created,       \* the path string os.Create was given
    written,       \* the path string of the file the body was copied to
    dlErr          \* the error it returned

ctlVars == <<mainPc, rootFolders, rootIdx, walk>>

poolVars == <<sem, holders, wg, errorsClosed, sinkPc, taskPc, taskErr, reported>>

envVars ==
    <<panic, faultsLeft, nFiles, listFailed, listed, peakRootWalks, failedRequests, attempts>>

fsVars == <<files, dirs>>

postVars == <<relocated, beforeRelocate, repairs, beforeRepair>>

gfVars == <<gfPc, gfI, expectedFolders, lastRetrievedFolders, gfResult, gfHistory>>

dlVars == <<dlPc, dlFileID, requestKey, dlDirs, created, written, dlErr>>

vars == <<ctlVars, poolVars, envVars, fsVars, postVars, gfVars, dlVars>>

-----------------------------------------------------------------------------
(* Program constants and bounds *)

maxConcurrentDownloads == 5

\* files of the remote tree in the pipeline specification
NumFiles == 3

\* files of the remote tree in the specification that saturates the gate
GateFiles == 6

\* failures (requests, file system operations) the environment may inject
MaxFaults == 2

runId == "run"

-----------------------------------------------------------------------------
(* Paths *)

Last(s) == s[Len(s)]

Front(s) == SubSeq(s, 1, Len(s) - 1)

IsPrefix(a, b) == Len(a) <= Len(b) /\ SubSeq(b, 1, Len(a)) = a

\* every directory os.MkdirAll(p) makes sure exists, the root included
MkdirAll(p) == {SubSeq(p, 1, k) : k \in 0..Len(p)}

\* every segment name of the model, in the byte order in which
\* filepath.Walk, ioutil.ReadDir and copy.Copy visit directory entries
SortedNames ==
    <<".", "..", "a.json", "a.txt", "allure-results", "b.json", "c.txt", "d.json",
      "e.png", "existing.txt", "f.txt", "g.json", "h.png", "html", "i.txt",
      "j.json", "k.png", "l.txt", "logs", "misc", "old.png", "report", "run",
      "shot.png", "top.txt", "x.txt">>

Rank(name) == CHOOSE k \in 1..Len(SortedNames) : SortedNames[k] = name

\* p comes before q in a lexical walk of the tree
RECURSIVE WalkBefore(_, _)
WalkBefore(p, q) ==
    IF p = << >> THEN q # << >>
    ELSE IF q = << >> THEN FALSE
    ELSE IF Head(p) = Head(q) THEN WalkBefore(Tail(p), Tail(q))
    ELSE Rank(Head(p)) < Rank(Head(q))

\* filepath.Base of a path
Base(p) == IF p = << >> THEN "." ELSE Last(p)

\* filepath.Ext(name) == ".json"
JsonNames == {"a.json", "b.json", "d.json", "g.json", "j.json"}

IsJsonName(name) == name \in JsonNames

RECURSIVE CommonLen(_, _)
CommonLen(a, b) ==
    IF a = << >> \/ b = << >> \/ Head(a) # Head(b) THEN 0
    ELSE 1 + CommonLen(Tail(a), Tail(b))

\* filepath.Rel with its arguments taken in the other order
Rel_Swapped(basepath, targpath) ==
    LET c == CommonLen(targpath, basepath)
        up == [k \in 1..(Len(targpath) - c) |-> ".."]
        down == SubSeq(basepath, c + 1, Len(basepath))
    IN IF up \o down = << >> THEN <<".">> ELSE up \o down

\* filepath.Rel(basepath, targpath) of two paths under the same root
Rel(basepath, targpath) ==
    LET c == CommonLen(basepath, targpath)
        up == [k \in 1..(Len(basepath) - c) |-> ".."]
        down == SubSeq(targpath, c + 1, Len(targpath))
    IN IF up \o down = << >> THEN <<".">> ELSE up \o down

-----------------------------------------------------------------------------
(* File contents *)

Attachment(hasSource, source) == [hasSource |-> hasSource, source |-> source]

\* origin and complete say which bytes the file holds; parses says whether
\* json.Unmarshal accepts them as an object; fmt says whether they are laid
\* out as json.MarshalIndent writes them; ro is a file that cannot be
\* opened for writing
Content(origin, complete, parses, fmt, hasAttachments, attachments, ro) ==
    [origin |-> origin, complete |-> complete, parses |-> parses, fmt |-> fmt,
     hasAttachments |-> hasAttachments, attachments |-> attachments, ro |-> ro]

Blob(origin) == Content(origin, TRUE, FALSE, "raw", FALSE, << >>, FALSE)

Put(f, p, c) == [q \in (DOMAIN f) \cup {p} |-> IF q = p THEN c ELSE f[q]]

Restrict(f, S) == [q \in S |-> f[q]]

-----------------------------------------------------------------------------
(* relocateContents: lines 196-211, with copy.Copy and os.RemoveAll *)

IsRegular(fs, p) == p \in DOMAIN fs.files

IsDir(fs, p) == p \in fs.dirs

Exists(fs, p) == IsRegular(fs, p) \/ IsDir(fs, p)

\* the entries of a directory, sorted by name
Entries(fs, d) == SelectSeq(SortedNames, LAMBDA n : Exists(fs, Append(d, n)))

\* some directory on the way to p, or p itself when self is set, is a file
BlockedByFile(fs, p, self) ==
    \E k \in 0..(Len(p) - (IF self THEN 0 ELSE 1)) : IsRegular(fs, SubSeq(p, 1, k))

Under(fs, d) == {p \in (DOMAIN fs.files) \cup fs.dirs : IsPrefix(d, p)}

\* copy.Copy(src, dest): st carries the tree, the count of entries handled
\* and the entry at which the environment makes the copy fail (0: none)
RECURSIVE copyPath(_, _, _), copyEntries(_, _, _, _)
copyPath(st, src, dest) ==
    IF ~st.ok THEN st
    ELSE IF st.ops + 1 = st.failAt THEN [st EXCEPT !.ok = FALSE, !.ops = @ + 1]
    ELSE LET s1 == [st EXCEPT !.ops = @ + 1] IN
         IF IsDir(s1, src)
         THEN IF BlockedByFile(s1, dest, TRUE)
              THEN [s1 EXCEPT !.ok = FALSE]
              ELSE LET s2 == [s1 EXCEPT !.dirs = @ \cup MkdirAll(dest)]
                   IN copyEntries(s2, src, dest, Entries(s2, src))
         ELSE IF \/ IsDir(s1, dest)
                 \/ BlockedByFile(s1, dest, FALSE)
                 \/ (IsRegular(s1, dest) /\ s1.files[dest].ro)
              THEN [s1 EXCEPT !.ok = FALSE]
              ELSE [s1 EXCEPT !.dirs = @ \cup MkdirAll(Front(dest)),
                              !.files = Put(@, dest, s1.files[src])]
copyEntries(st, src, dest, names) ==
    IF names = << >> THEN st
    ELSE copyEntries(copyPath(st, Append(src, Head(names)), Append(dest, Head(names))),
                     src, dest, Tail(names))

\* os.RemoveAll(d); when stuck names an entry that cannot be removed, it
\* and the directories above it stay
RemoveAll(fs, d, stuck) ==
    LET keep(p) == ~IsPrefix(d, p) \/ (stuck # << >> /\ IsPrefix(p, stuck))
    IN [files |-> Restrict(fs.files, {p \in DOMAIN fs.files : keep(p)}),
        dirs |-> {p \in fs.dirs : keep(p)}]

runIdDir == <<runId>>

\* relocateContents without lines 207-210
relocateContents_NoRemove(fs, failAt, stuck) ==
    IF ~Exists(fs, runIdDir)
    THEN [files |-> fs.files, dirs |-> fs.dirs, how |-> "skipped"]
    ELSE LET c == copyPath([files |-> fs.files, dirs |-> fs.dirs, ok |-> TRUE,
                            ops |-> 0, failAt |-> failAt], runIdDir, << >>)
         IN [files |-> c.files, dirs |-> c.dirs,
             how |-> IF ~c.ok THEN "copyFailed"
                     ELSE IF stuck = << >> THEN "ok" ELSE "removeFailed"]

\* relocateContents without the return of line 204: the removal runs after
\* a failed copy too
relocateContents_RemoveAlways(fs, failAt, stuck) ==
    IF ~Exists(fs, runIdDir)
    THEN [files |-> fs.files, dirs |-> fs.dirs, how |-> "skipped"]
    ELSE LET c == copyPath([files |-> fs.files, dirs |-> fs.dirs, ok |-> TRUE,
                            ops |-> 0, failAt |-> failAt], runIdDir, << >>)
             r == RemoveAll(c, runIdDir, stuck)
         IN [files |-> r.files, dirs |-> r.dirs,
             how |-> IF ~c.ok THEN "copyFailed"
                     ELSE IF stuck = << >> THEN "ok" ELSE "removeFailed"]

\* the whole of relocateContents; failAt and stuck are the environment's
\* failures of the copy and of the removal
relocateContents(fs, failAt, stuck) ==
    IF ~Exists(fs, runIdDir)
    THEN [files |-> fs.files, dirs |-> fs.dirs, how |-> "skipped"]
    ELSE LET c == copyPath([files |-> fs.files, dirs |-> fs.dirs, ok |-> TRUE,
                            ops |-> 0, failAt |-> failAt], runIdDir, << >>)
         IN IF ~c.ok
            THEN [files |-> c.files, dirs |-> c.dirs, how |-> "copyFailed"]
            ELSE LET r == RemoveAll(c, runIdDir, stuck)
                 IN [files |-> r.files, dirs |-> r.dirs,
                     how |-> IF stuck = << >> THEN "ok" ELSE "removeFailed"]

-----------------------------------------------------------------------------
(* updateJsonPaths: lines 213-290 *)

\* lines 215-227: fileMap[filename] = path, the last path walked wins
fileMap(fs) ==
    [name \in {Base(p) : p \in DOMAIN fs.files} |->
        CHOOSE p \in DOMAIN fs.files :
            /\ Base(p) = name
            /\ \A q \in DOMAIN fs.files : (Base(q) = name /\ q # p) => WalkBefore(q, p)]

allureResultsDir == <<"report", "allure-results">>

\* lines 259-276: the new value of one element of attachments
updateAttachment(a, fm) ==
    IF a.hasSource /\ Base(a.source) \in DOMAIN fm
    THEN [a EXCEPT !.source = Rel(allureResultsDir, fm[Base(a.source)])]
    ELSE a

\* lines 246-287 with the MarshalIndent and WriteFile of lines 277-286 moved
\* out of the test of line 257
updateJsonFile_AlwaysWrite(c, fm) ==
    IF ~c.parses THEN c
    ELSE IF c.ro THEN c
    ELSE [c EXCEPT !.fmt = "indented",
                   !.attachments = [k \in 1..Len(@) |-> updateAttachment(@[k], fm)]]

\* lines 246-287: what one .json file of the directory holds afterwards
updateJsonFile(c, fm) ==
    IF ~c.parses THEN c
    ELSE IF ~c.hasAttachments THEN c
    ELSE IF c.ro THEN c
    ELSE [c EXCEPT !.fmt = "indented",
                   !.attachments = [k \in 1..Len(@) |-> updateAttachment(@[k], fm)]]

\* the whole of updateJsonPaths: the files afterwards
updateJsonPaths(fs) ==
    IF ~IsDir(fs, allureResultsDir) THEN fs.files
    ELSE LET fm == fileMap(fs)
         IN [p \in DOMAIN fs.files |->
               IF Front(p) = allureResultsDir /\ IsJsonName(Last(p))
               THEN updateJsonFile(fs.files[p], fm)
               ELSE fs.files[p]]

-----------------------------------------------------------------------------
(* The remote artifact tree served by the listing and content endpoints *)

\* lines 18-22
ArtifactTree(id, isFile, name) == [ID |-> id, IsFile |-> isFile, Name |-> name]

\* a node whose name is the last segment of its id
Node(id, isFile) == ArtifactTree(id, isFile, Base(id))

ReportDir == <<runId, "report">>
ResultsDir == <<runId, "report", "allure-results">>
LogsDir == <<runId, "logs">>
MiscDir == <<runId, "misc">>
TopFile == <<runId, "top.txt">>
EmptyID == << >>

FileNames == <<"a.json", "shot.png", "c.txt", "d.json", "e.png", "f.txt",
               "g.json", "h.png", "i.txt", "j.json", "k.png", "l.txt">>

FolderOf(k) ==
    CASE k % 3 = 1 -> ResultsDir
      [] k % 3 = 2 -> LogsDir
      [] OTHER -> ReportDir

FileID(k) == Append(FolderOf(k), FileNames[k])

RECURSIVE FilesIn(_, _, _)
FilesIn(folder, k, n) ==
    IF k > n THEN << >>
    ELSE (IF FolderOf(k) = folder
          THEN <<Node(FileID(k), TRUE)>> ELSE << >>)
         \o FilesIn(folder, k + 1, n)

\* body of a successful listing response for a folder id, in a tree of n files
Children(id, n) ==
    CASE id = ReportDir -> <<Node(ResultsDir, FALSE)>> \o FilesIn(ReportDir, 1, n)
      [] id = ResultsDir -> FilesIn(ResultsDir, 1, n)
      [] id = LogsDir -> FilesIn(LogsDir, 1, n)
      [] id = MiscDir -> <<Node(EmptyID, TRUE)>>
      [] OTHER -> << >>

\* the listings getFolder can hand to GetArtifacts
RootListings ==
    { << >>,
      <<Node(ReportDir, FALSE), Node(LogsDir, FALSE)>>,
      <<Node(TopFile, TRUE), Node(MiscDir, FALSE)>> }

TaskIds == {FileID(k) : k \in 1..Len(FileNames)} \cup {EmptyID, TopFile}

\* what the content endpoint serves for a file id: the report documents
\* refer to their attachments by remote path
RemoteContent(id) ==
    IF IsJsonName(Last(id))
    THEN Content(id, TRUE, TRUE, "raw", Last(id) # "d.json",
                 IF Last(id) = "d.json" THEN << >>
                 ELSE <<Attachment(TRUE, <<runId, "logs", "shot.png">>),
                        Attachment(TRUE, <<runId, "logs", "missing.png">>)>>,
                 FALSE)
    ELSE Blob(id)

\* the file after io.Copy failed part-way
PartialContent(id) == Content(id, FALSE, FALSE, "raw", FALSE, << >>, FALSE)

-----------------------------------------------------------------------------
(* GetArtifacts: lines 26-62 *)

Alive == panic = "none"

\* line 27: rootFolders := getFolder(token, runId)
CallGetFolder ==
    /\ Alive /\ mainPc = "getFolder"
    /\ \E listing \in RootListings : rootFolders' = listing
    /\ mainPc' = "setup"
    /\ UNCHANGED <<rootIdx, walk, poolVars, envVars, fsVars, postVars, gfVars, dlVars>>

\* lines 28-48: the empty check, make(sem), make(errors), go sink
Setup ==
    /\ Alive /\ mainPc = "setup"
    /\ IF Len(rootFolders) = 0
       THEN /\ mainPc' = "returned"
            /\ UNCHANGED sinkPc
       ELSE /\ mainPc' = "walk"
            /\ sinkPc' = "recv"
    /\ UNCHANGED <<rootFolders, rootIdx, walk, sem, holders, wg, errorsClosed, taskPc, taskErr,
                   reported, envVars, fsVars, postVars, gfVars, dlVars>>

\* the root folders some frame of the walk descends from
RootsInFlight(w) == {w[k].root : k \in 1..Len(w)}

Max(a, b) == IF a >= b THEN a ELSE b

\* lines 50-52 with a go statement before the call: the next root folder is
\* started while the walk of the previous one is still going on
RangeRootFolders_Overlapping ==
    /\ Alive /\ mainPc = "walk"
    /\ IF rootIdx <= Len(rootFolders)
       THEN /\ walk' = Append(walk, [folderID |-> rootFolders[rootIdx].ID, pc |-> "call",
                                     folders |-> << >>, i |-> 1, root |-> rootIdx])
            /\ rootIdx' = rootIdx + 1
            /\ peakRootWalks' = Max(peakRootWalks, Cardinality(RootsInFlight(walk')))
            /\ UNCHANGED mainPc
       ELSE /\ walk = << >>
            /\ mainPc' = "wait"
            /\ UNCHANGED <<walk, rootIdx, peakRootWalks>>
    /\ UNCHANGED <<rootFolders, poolVars, panic, faultsLeft, nFiles, listFailed, listed,
                   failedRequests, attempts, fsVars, postVars, gfVars, dlVars>>

\* lines 50-52 with the test of line 137 applied to the root listing too: a
\* root node flagged as a file is given to a download goroutine
RangeRootFolders_TestIsFile ==
    /\ Alive /\ mainPc = "walk" /\ walk = << >>
    /\ IF rootIdx <= Len(rootFolders)
       THEN /\ IF rootFolders[rootIdx].IsFile
               THEN /\ wg' = wg + 1
                    /\ taskPc' = [taskPc EXCEPT ![rootFolders[rootIdx].ID] = "acquire"]
                    /\ UNCHANGED <<walk, peakRootWalks>>
               ELSE /\ walk' = <<[folderID |-> rootFolders[rootIdx].ID, pc |-> "call",
                                  folders |-> << >>, i |-> 1, root |-> rootIdx]>>
                    /\ peakRootWalks' = Max(peakRootWalks, 1)
                    /\ UNCHANGED <<wg, taskPc>>
            /\ rootIdx' = rootIdx + 1
            /\ UNCHANGED mainPc
       ELSE /\ mainPc' = "wait"
            /\ UNCHANGED <<walk, rootIdx, peakRootWalks, wg, taskPc>>
    /\ UNCHANGED <<rootFolders, sem, holders, errorsClosed, sinkPc, taskErr, reported,
                   panic, faultsLeft, nFiles, listFailed, listed,
                   failedRequests, attempts, fsVars, postVars, gfVars, dlVars>>

\* lines 50-52: for _, folder := range *rootFolders { getFoldersRecursively(...) }
RangeRootFolders ==
    /\ Alive /\ mainPc = "walk" /\ walk = << >>
    /\ IF rootIdx <= Len(rootFolders)
       THEN /\ walk' = <<[folderID |-> rootFolders[rootIdx].ID, pc |-> "call",
                          folders |-> << >>, i |-> 1, root |-> rootIdx]>>
            /\ rootIdx' = rootIdx + 1
            /\ peakRootWalks' = Max(peakRootWalks, Cardinality(RootsInFlight(walk')))
            /\ UNCHANGED mainPc
       ELSE /\ mainPc' = "wait"
            /\ UNCHANGED <<walk, rootIdx, peakRootWalks>>
    /\ UNCHANGED <<rootFolders, poolVars, panic, faultsLeft, nFiles, listFailed, listed,
                   failedRequests, attempts, fsVars, postVars, gfVars, dlVars>>

-----------------------------------------------------------------------------
(* getFoldersRecursively: lines 119-152 *)

Top == walk[Len(walk)]

Pop == SubSeq(walk, 1, Len(walk) - 1)

ListOutcomes == {"ok", "nil", "readErr", "malformed"}

\* lines 120-134: the listing request, reading and decoding its body
ListFolder ==
    /\ Alive /\ mainPc = "walk" /\ walk # << >> /\ Top.pc = "call"
    /\ \E outcome \in ListOutcomes :
         /\ outcome # "ok" => faultsLeft > 0
         /\ faultsLeft' = IF outcome = "ok" THEN faultsLeft ELSE faultsLeft - 1
         /\ listFailed' = (listFailed \/ outcome # "ok")
         /\ listed' = listed \cup {Top.folderID}
         /\ CASE outcome = "nil" ->
                   \* line 121: resp.Body of a nil response
                   /\ panic' = "listing"
                   /\ UNCHANGED walk
              [] outcome \in {"readErr", "malformed"} ->
                   \* lines 124-127, 131-134: logged, return
                   /\ walk' = Pop
                   /\ UNCHANGED panic
              [] OTHER ->
                   /\ walk' = [walk EXCEPT ![Len(walk)] =
                                 [@ EXCEPT !.pc = "loop",
                                           !.folders = Children(Top.folderID, nFiles)]]
                   /\ UNCHANGED panic
    /\ UNCHANGED <<mainPc, rootFolders, rootIdx, poolVars, nFiles, peakRootWalks, failedRequests,
                   attempts, fsVars, postVars, gfVars, dlVars>>

\* lines 137-147 with the send on sem made by the walking goroutine before
\* the go statement
Submit_Blocking ==
    /\ Alive /\ mainPc = "walk" /\ walk # << >> /\ Top.pc = "loop"
    /\ Top.i <= Len(Top.folders)
    /\ Top.folders[Top.i].IsFile
    /\ sem < maxConcurrentDownloads
    /\ sem' = sem + 1
    /\ holders' = holders \cup {Top.folders[Top.i].ID}
    /\ wg' = wg + 1
    /\ taskPc' = [taskPc EXCEPT ![Top.folders[Top.i].ID] = "download"]
    /\ walk' = [walk EXCEPT ![Len(walk)].i = @ + 1]
    /\ UNCHANGED <<mainPc, rootFolders, rootIdx, errorsClosed, sinkPc, taskErr,
                   reported, envVars, fsVars, postVars, gfVars, dlVars>>

\* lines 137-147: wg.Add(1) and the go statement for a file
Submit ==
    /\ Alive /\ mainPc = "walk" /\ walk # << >> /\ Top.pc = "loop"
    /\ Top.i <= Len(Top.folders)
    /\ Top.folders[Top.i].IsFile
    /\ wg' = wg + 1
    /\ taskPc' = [taskPc EXCEPT ![Top.folders[Top.i].ID] = "acquire"]
    /\ walk' = [walk EXCEPT ![Len(walk)].i = @ + 1]
    /\ UNCHANGED <<mainPc, rootFolders, rootIdx, sem, holders, errorsClosed, sinkPc, taskErr,
                   reported, envVars, fsVars, postVars, gfVars, dlVars>>

\* lines 148-150: the recursive call for a folder
Recurse ==
    /\ Alive /\ mainPc = "walk" /\ walk # << >> /\ Top.pc = "loop"
    /\ Top.i <= Len(Top.folders)
    /\ ~Top.folders[Top.i].IsFile
    /\ walk' = Append([walk EXCEPT ![Len(walk)].i = @ + 1],
                      [folderID |-> Top.folders[Top.i].ID, pc |-> "call",
                       folders |-> << >>, i |-> 1, root |-> Top.root])
    /\ UNCHANGED <<mainPc, rootFolders, rootIdx, poolVars, envVars, fsVars, postVars,
                   gfVars, dlVars>>

\* line 152: the range loop is over, the call returns
WalkReturn ==
    /\ Alive /\ mainPc = "walk" /\ walk # << >> /\ Top.pc = "loop"
    /\ Top.i > Len(Top.folders)
    /\ walk' = Pop
    /\ UNCHANGED <<mainPc, rootFolders, rootIdx, poolVars, envVars, fsVars, postVars,
                   gfVars, dlVars>>

-----------------------------------------------------------------------------
(* The download goroutine: lines 139-147, and downloadFile: lines 154-194 *)

\* the send of line 141 on a channel that never fills
Acquire_NoLimit(t) ==
    /\ Alive /\ taskPc[t] = "acquire"
    /\ sem' = sem + 1
    /\ holders' = holders \cup {t}
    /\ taskPc' = [taskPc EXCEPT ![t] = "download"]
    /\ UNCHANGED <<ctlVars, wg, errorsClosed, sinkPc, taskErr, reported, envVars,
                   fsVars, postVars, gfVars, dlVars>>

\* line 141 on a channel made with room for a single token
Acquire_OneSlot(t) ==
    /\ Alive /\ taskPc[t] = "acquire"
    /\ sem < 1
    /\ sem' = sem + 1
    /\ holders' = holders \cup {t}
    /\ taskPc' = [taskPc EXCEPT ![t] = "download"]
    /\ UNCHANGED <<ctlVars, wg, errorsClosed, sinkPc, taskErr, reported, envVars,
                   fsVars, postVars, gfVars, dlVars>>

\* line 141: sem <- struct{}{} blocks while the channel is full
Acquire(t) ==
    /\ Alive /\ taskPc[t] = "acquire"
    /\ sem < maxConcurrentDownloads
    /\ sem' = sem + 1
    /\ holders' = holders \cup {t}
    /\ taskPc' = [taskPc EXCEPT ![t] = "download"]
    /\ UNCHANGED <<ctlVars, wg, errorsClosed, sinkPc, taskErr, reported, envVars,
                   fsVars, postVars, gfVars, dlVars>>

DownloadOutcomes == {"ok", "mkdirErr", "nil", "createErr", "copyErr"}

\* lines 160-166: the local directory of a file id
fileFolder(fileID) == Front(fileID)

\* line 180: the local path of a file id
filePath(fileID) == Append(fileFolder(fileID), Last(fileID))

\* line 142: err := downloadFile(token, id, whereToSave)
downloadFile(t) ==
    /\ Alive /\ taskPc[t] = "download"
    /\ attempts' = [attempts EXCEPT ![t] = @ + 1]
    /\ IF t = EmptyID
       THEN \* lines 155-157
            /\ taskErr' = [taskErr EXCEPT ![t] = "emptyID"]
            /\ taskPc' = [taskPc EXCEPT ![t] = "release"]
            /\ UNCHANGED <<files, dirs, panic, faultsLeft, failedRequests>>
       ELSE \E outcome \in DownloadOutcomes :
            /\ outcome # "ok" => faultsLeft > 0
            /\ faultsLeft' = IF outcome = "ok" THEN faultsLeft ELSE faultsLeft - 1
            /\ CASE outcome = "mkdirErr" ->
                      \* lines 169-172
                      /\ taskErr' = [taskErr EXCEPT ![t] = "mkdirErr"]
                      /\ taskPc' = [taskPc EXCEPT ![t] = "release"]
                      /\ UNCHANGED <<files, dirs, panic, failedRequests>>
                 [] outcome = "nil" ->
                      \* lines 176-177: resp.Body of a nil response
                      /\ dirs' = dirs \cup MkdirAll(fileFolder(t))
                      /\ panic' = "request"
                      /\ failedRequests' = failedRequests \cup {t}
                      /\ UNCHANGED <<files, taskErr, taskPc>>
                 [] outcome = "createErr" ->
                      \* lines 181-184
                      /\ dirs' = dirs \cup MkdirAll(fileFolder(t))
                      /\ taskErr' = [taskErr EXCEPT ![t] = "createErr"]
                      /\ taskPc' = [taskPc EXCEPT ![t] = "release"]
                      /\ UNCHANGED <<files, panic, failedRequests>>
                 [] outcome = "copyErr" ->
                      \* lines 188-191
                      /\ dirs' = dirs \cup MkdirAll(fileFolder(t))
                      /\ files' = Put(files, filePath(t), PartialContent(t))
                      /\ taskErr' = [taskErr EXCEPT ![t] = "copyErr"]
                      /\ taskPc' = [taskPc EXCEPT ![t] = "release"]
                      /\ UNCHANGED <<panic, failedRequests>>
                 [] OTHER ->
                      \* line 193
                      /\ dirs' = dirs \cup MkdirAll(fileFolder(t))
                      /\ files' = Put(files, filePath(t), RemoteContent(t))
                      /\ taskPc' = [taskPc EXCEPT ![t] = "release"]
                      /\ UNCHANGED <<taskErr, panic, failedRequests>>
    /\ UNCHANGED <<ctlVars, sem, holders, wg, errorsClosed, sinkPc, reported, nFiles,
                   listFailed, listed, peakRootWalks,
                   postVars, gfVars, dlVars>>

\* lines 143-144 with the receive from sem skipped when err is not nil
Release_LeakOnError(t) ==
    /\ Alive /\ taskPc[t] = "release"
    /\ sem' = IF taskErr[t] # "nil" THEN sem ELSE sem - 1
    /\ holders' = IF taskErr[t] # "nil" THEN holders ELSE holders \ {t}
    /\ taskPc' = [taskPc EXCEPT ![t] = IF taskErr[t] # "nil" THEN "send" ELSE "exit"]
    /\ UNCHANGED <<ctlVars, wg, errorsClosed, sinkPc, taskErr, reported, envVars,
                   fsVars, postVars, gfVars, dlVars>>

\* lines 143-144: <-sem, then the test of err
Release(t) ==
    /\ Alive /\ taskPc[t] = "release"
    /\ sem' = sem - 1
    /\ holders' = holders \ {t}
    /\ taskPc' = [taskPc EXCEPT ![t] = IF taskErr[t] # "nil" THEN "send" ELSE "exit"]
    /\ UNCHANGED <<ctlVars, wg, errorsClosed, sinkPc, taskErr, reported, envVars,
                   fsVars, postVars, gfVars, dlVars>>

\* line 145 with lines 43-47: errors <- err meets the sink's receive;
\* a send on a closed channel panics
Send(t) ==
    /\ Alive /\ taskPc[t] = "send"
    /\ IF errorsClosed
       THEN /\ panic' = "send"
            /\ UNCHANGED <<taskPc, reported>>
       ELSE /\ sinkPc = "recv"
            /\ reported' = reported \cup {<<t, taskErr[t]>>}
            /\ taskPc' = [taskPc EXCEPT ![t] = "exit"]
            /\ UNCHANGED panic
    /\ UNCHANGED <<ctlVars, sem, holders, wg, errorsClosed, sinkPc, taskErr, faultsLeft, nFiles,
                   listFailed, listed, peakRootWalks, failedRequests, attempts, fsVars,
                   postVars, gfVars, dlVars>>

\* wg.Done() run ahead of the send of line 145 instead of being deferred
Done_Early(t) ==
    /\ Alive /\ taskPc[t] \in {"send", "exit"}
    /\ wg' = wg - 1
    /\ taskPc' = [taskPc EXCEPT ![t] = "done"]
    /\ UNCHANGED <<ctlVars, sem, holders, errorsClosed, sinkPc, taskErr, reported, envVars,
                   fsVars, postVars, gfVars, dlVars>>

\* line 140: the deferred wg.Done()
Done(t) ==
    /\ Alive /\ taskPc[t] = "exit"
    /\ wg' = wg - 1
    /\ taskPc' = [taskPc EXCEPT ![t] = "done"]
    /\ UNCHANGED <<ctlVars, sem, holders, errorsClosed, sinkPc, taskErr, reported, envVars,
                   fsVars, postVars, gfVars, dlVars>>

-----------------------------------------------------------------------------
(* downloadFile on one fileID, character by character: lines 154-194.      *)
(* A string is the sequence of its characters.                             *)

\* the longest fileID of a single call
MaxIdLen == 4

\* the characters a fileID is made of
IdChars == {"a", "#", "/", "."}

\* strings.Split(s, sep) for a separator of one character
RECURSIVE Split(_, _)
Split(s, sep) ==
    IF s = << >> THEN << << >> >>
    ELSE LET rest == Split(Tail(s), sep)
         IN IF Head(s) = sep THEN << << >> >> \o rest
            ELSE << <<Head(s)>> \o Head(rest) >> \o Tail(rest)

\* strings.Join(parts, sep)
RECURSIVE Join(_, _)
Join(parts, sep) ==
    IF parts = << >> THEN << >>
    ELSE IF Len(parts) = 1 THEN parts[1]
    ELSE parts[1] \o <<sep>> \o Join(Tail(parts), sep)

\* strings.ReplaceAll(s, old, new) for an old of one character
RECURSIVE ReplaceAll(_, _, _)
ReplaceAll(s, old, new) ==
    IF s = << >> THEN << >>
    ELSE (IF Head(s) = old THEN new ELSE <<Head(s)>>) \o ReplaceAll(Tail(s), old, new)

DotDot == <<".", ".">>

\* the elements path.Clean keeps of a path that is not rooted
RECURSIVE CleanSegs(_, _)
CleanSegs(segs, acc) ==
    IF segs = << >> THEN acc
    ELSE LET h == Head(segs)
         IN IF h = << >> \/ h = <<".">> THEN CleanSegs(Tail(segs), acc)
            ELSE IF h = DotDot /\ acc # << >> /\ Last(acc) # DotDot
                 THEN CleanSegs(Tail(segs), Front(acc))
                 ELSE CleanSegs(Tail(segs), Append(acc, h))

\* path.Clean(s)
Clean(s) ==
    LET segs == CleanSegs(Split(s, "/"), << >>)
    IN IF segs = << >> THEN <<".">> ELSE Join(segs, "/")

\* path.Join(a, b): empty elements are ignored, the result is cleaned
pathJoin(a, b) ==
    LET elems == SelectSeq(<<a, b>>, LAMBDA e : e # << >>)
    IN IF elems = << >> THEN << >> ELSE Clean(Join(elems, "/"))

whereToSave == <<"R">>

\* line 159 applied to the escaped identifier of line 175
keyArray_FromValidFileID(id) == Split(ReplaceAll(id, "#", <<"%", "2", "3">>), "/")

\* line 159
keyArray(id) == Split(id, "/")

\* lines 160-163
subFolder(id) ==
    IF Len(keyArray(id)) > 1 THEN Join(Front(keyArray(id)), "/") ELSE << >>

\* line 165
fileName(id) == Last(keyArray(id))

\* line 166: fileFolder := path.Join(whereToSave, subFolder)
fileFolderStr(id) == pathJoin(whereToSave, subFolder(id))

\* line 175
validFileID(id) == ReplaceAll(id, "#", <<"%", "2", "3">>)

\* line 180: filePath := path.Join(fileFolder, fileName)
filePathStr(id) == pathJoin(fileFolderStr(id), fileName(id))

\* the directories os.MkdirAll(p) makes sure exist
MkdirAllStr(p) ==
    LET segs == Split(p, "/")
    IN {Join(SubSeq(segs, 1, k), "/") : k \in 1..Len(segs)}

\* a path above the working directory: "..", "../..", ...
OnlyDotDot(p) == \A k \in 1..Len(Split(p, "/")) : Split(p, "/")[k] = DotDot

\* no call of downloadFile on its own is going on
DlIdle ==
    /\ dlPc = "idle"
    /\ dlFileID = << >>
    /\ requestKey = << >>
    /\ dlDirs = {}
    /\ created = << >>
    /\ written = << >>
    /\ dlErr = "nil"

\* one call downloadFile(token, fileID, whereToSave), whole
DownloadFileCall ==
    /\ dlPc = "call"
    /\ IF dlFileID = << >>
       THEN \* lines 155-157
            /\ dlErr' = "emptyID"
            /\ dlPc' = "returned"
            /\ UNCHANGED <<requestKey, dlDirs, created, written>>
       ELSE \E outcome \in DownloadOutcomes :
            CASE outcome = "mkdirErr" ->
                   \* lines 169-172
                   /\ dlErr' = "mkdirErr"
                   /\ dlPc' = "returned"
                   /\ UNCHANGED <<requestKey, dlDirs, created, written>>
              [] outcome = "nil" ->
                   \* lines 176-177: resp.Body of a nil response
                   /\ dlDirs' = dlDirs \cup MkdirAllStr(fileFolderStr(dlFileID))
                   /\ requestKey' = validFileID(dlFileID)
                   /\ dlPc' = "panicked"
                   /\ UNCHANGED <<created, written, dlErr>>
              [] OTHER ->
                   /\ dlDirs' = dlDirs \cup MkdirAllStr(fileFolderStr(dlFileID))
                   /\ requestKey' = validFileID(dlFileID)
                   /\ created' = filePathStr(dlFileID)
                   /\ dlPc' = "returned"
                   /\ IF \/ outcome = "createErr"
                         \/ created' \in dlDirs'
                         \/ OnlyDotDot(created')
                      THEN \* lines 181-184: os.Create fails, also on a directory
                           /\ dlErr' = "createErr"
                           /\ UNCHANGED written
                      ELSE \* lines 188-193
                           /\ written' = created'
                           /\ dlErr' = IF outcome = "copyErr" THEN "copyErr" ELSE "nil"
    /\ UNCHANGED dlFileID
    /\ UNCHANGED <<ctlVars, poolVars, envVars, fsVars, postVars, gfVars>>

-----------------------------------------------------------------------------
(* The barrier, the end of the sink and the post-processing: lines 42-48, 55-61 *)

\* line 55 without the wait for the counter
Wait_NoBarrier ==
    /\ Alive /\ mainPc = "wait"
    /\ mainPc' = "close"
    /\ UNCHANGED <<rootFolders, rootIdx, walk, poolVars, envVars, fsVars, postVars,
                   gfVars, dlVars>>

\* line 55: wg.Wait() returns once the counter is zero
Wait ==
    /\ Alive /\ mainPc = "wait"
    /\ wg = 0
    /\ mainPc' = "close"
    /\ UNCHANGED <<rootFolders, rootIdx, walk, poolVars, envVars, fsVars, postVars,
                   gfVars, dlVars>>

\* line 56: close(errors)
Close ==
    /\ Alive /\ mainPc = "close"
    /\ errorsClosed' = TRUE
    /\ mainPc' = "relocate"
    /\ UNCHANGED <<rootFolders, rootIdx, walk, sem, holders, wg, sinkPc, taskPc, taskErr,
                   reported, envVars, fsVars, postVars, gfVars, dlVars>>

\* lines 43-48 with a single receive in place of the range over errors
SinkExit_AfterFirst ==
    /\ Alive /\ sinkPc = "recv" /\ (errorsClosed \/ reported # {})
    /\ sinkPc' = "exited"
    /\ UNCHANGED <<ctlVars, sem, holders, wg, errorsClosed, taskPc, taskErr, reported,
                   envVars, fsVars, postVars, gfVars, dlVars>>

\* lines 43-48: the range over errors ends when the channel is closed
SinkExit ==
    /\ Alive /\ sinkPc = "recv" /\ errorsClosed
    /\ sinkPc' = "exited"
    /\ UNCHANGED <<ctlVars, sem, holders, wg, errorsClosed, taskPc, taskErr, reported, envVars,
                   fsVars, postVars, gfVars, dlVars>>

FS == [files |-> files, dirs |-> dirs]

\* line 59: relocateContents(whereToSave, runId)
RelocateContents ==
    /\ Alive /\ mainPc = "relocate"
    /\ \E failAt \in 0..(Cardinality(Under(FS, runIdDir)) + 1),
          stuck \in {<< >>} \cup Under(FS, runIdDir) :
         /\ (failAt # 0 \/ stuck # << >>) => faultsLeft > 0
         /\ failAt # 0 => stuck = << >>
         /\ LET r == relocateContents(FS, failAt, stuck)
            IN /\ (failAt # 0) => r.how = "copyFailed"
               /\ (stuck # << >>) => r.how = "removeFailed"
               /\ files' = r.files
               /\ dirs' = r.dirs
               /\ relocated' = r.how
         /\ faultsLeft' = IF failAt # 0 \/ stuck # << >> THEN faultsLeft - 1 ELSE faultsLeft
    /\ beforeRelocate' = FS
    /\ mainPc' = "update"
    /\ UNCHANGED <<rootFolders, rootIdx, walk, poolVars, panic, nFiles, listFailed, listed,
                   peakRootWalks, failedRequests, attempts, repairs, beforeRepair, gfVars, dlVars>>

\* line 61: updateJsonPaths(whereToSave), then GetArtifacts returns
UpdateJsonPaths ==
    /\ Alive /\ mainPc = "update"
    /\ files' = updateJsonPaths(FS)
    /\ beforeRepair' = files
    /\ repairs' = repairs + 1
    /\ mainPc' = "returned"
    /\ UNCHANGED <<rootFolders, rootIdx, walk, poolVars, envVars, dirs, relocated,
                   beforeRelocate, gfVars, dlVars>>

-----------------------------------------------------------------------------
(* The pipeline *)

NoTree == [files |-> << >>, dirs |-> {}]

PostIdle ==
    /\ relocated = "none"
    /\ beforeRelocate = NoTree
    /\ repairs = 0
    /\ beforeRepair = << >>

GfIdle ==
    /\ gfPc = "idle"
    /\ gfI = 0
    /\ expectedFolders = {}
    /\ lastRetrievedFolders = << >>
    /\ gfResult = << >>
    /\ gfHistory = << >>

\* the state of GetArtifacts at position pc with the local tree fs, before
\* any download task exists
PipelineAt(pc, fs, n, faults) ==
    /\ mainPc = pc
    /\ rootFolders = << >>
    /\ rootIdx = 1
    /\ walk = << >>
    /\ sem = 0
    /\ holders = {}
    /\ wg = 0
    /\ errorsClosed = FALSE
    /\ sinkPc = "none"
    /\ taskPc = [t \in TaskIds |-> "none"]
    /\ taskErr = [t \in TaskIds |-> "nil"]
    /\ reported = {}
    /\ panic = "none"
    /\ faultsLeft = faults
    /\ nFiles = n
    /\ listFailed = FALSE
    /\ listed = {}
    /\ peakRootWalks = 0
    /\ failedRequests = {}
    /\ attempts = [t \in TaskIds |-> 0]
    /\ files = fs.files
    /\ dirs = fs.dirs
    /\ PostIdle

EmptyTree == [files |-> << >>, dirs |-> {<< >>}]

PipelineInit(n, faults) ==
    /\ PipelineAt("getFolder", EmptyTree, n, faults)
    /\ GfIdle
    /\ DlIdle

Init == PipelineInit(NumFiles, MaxFaults)

Next ==
    \/ CallGetFolder
    \/ Setup
    \/ RangeRootFolders
    \/ ListFolder
    \/ Submit
    \/ Recurse
    \/ WalkReturn
    \/ \E t \in TaskIds : Acquire(t)
    \/ \E t \in TaskIds : downloadFile(t)
    \/ \E t \in TaskIds : Release(t)
    \/ \E t \in TaskIds : Send(t)
    \/ \E t \in TaskIds : Done(t)
    \/ Wait
    \/ Close
    \/ SinkExit
    \/ RelocateContents
    \/ UpdateJsonPaths

Spec == Init /\ [][Next]_vars

\* the same pipeline on a tree with more files than the gate has slots,
\* in an environment that injects no failure
InitGate == PipelineInit(GateFiles, 0)

SpecGate == InitGate /\ [][Next]_vars

-----------------------------------------------------------------------------
(* Properties of the pipeline *)

Submitted == {t \in TaskIds : taskPc[t] # "none"}

\* the tasks that hold a token of sem: between lines 141 and 143
Holding == {t \in TaskIds : taskPc[t] \in {"download", "release"}}

\* C1: at most maxConcurrentDownloads download tasks hold a gate slot
\* (are executing downloadFile) at any time.
C1_AtMostKDownloads == Cardinality(Holding) <= maxConcurrentDownloads

\* C1 witness: every slot is taken and a further task waits for one
C1_GateSaturated ==
    /\ Cardinality(Holding) = maxConcurrentDownloads
    /\ \E t \in TaskIds : taskPc[t] = "acquire"

\* the leaves of the tree below a listing: every node with IsFile
RECURSIVE LeavesOf(_, _)
LeavesOf(listing, n) ==
    UNION { IF listing[k].IsFile THEN {listing[k].ID}
            ELSE LeavesOf(Children(listing[k].ID, n), n) : k \in 1..Len(listing) }

\* C2: when GetArtifacts returns after every listing succeeded, every leaf
\* of the tree, the leaves of the root listing included, has had exactly one
\* call of downloadFile.
C2_EveryLeafAttemptedOnce ==
    (mainPc = "returned" /\ ~listFailed) =>
        \A t \in LeavesOf(rootFolders, nFiles) : attempts[t] = 1

AllTasksFinished == \A t \in TaskIds : taskPc[t] \in {"none", "done"}

\* C3: relocateContents has not started while a submitted download task is
\* unfinished, and updateJsonPaths has not started before relocateContents
\* returned.
C3_BarrierThenRelocateThenRepair ==
    /\ relocated # "none" => AllTasksFinished
    /\ repairs > 0 => relocated # "none"

\* C3 witness: both post-processing steps ran after downloads, one of
\* which failed
C3_PostProcessingRan ==
    /\ relocated # "none" /\ repairs > 0
    /\ reported # {}
    /\ \E t \in TaskIds : taskPc[t] = "done" /\ taskErr[t] = "nil"

ReturnedErrors == {"mkdirErr", "createErr", "copyErr"}

\* C6: a download failure of any of the four kinds reaches the failure sink
\* as an error and leaves the process, hence the sibling downloads, running.
C6_DownloadFailureReachesSink ==
    \A t \in TaskIds :
        /\ (taskErr[t] \in ReturnedErrors /\ taskPc[t] = "done")
              => <<t, taskErr[t]>> \in reported
        /\ t \in failedRequests => panic # "request"

\* C7: a failed listing in the tree walker, by transport error or by
\* malformed body, abandons that folder only: the walker goes on.
C7_ListingFailureIsLocal == listFailed => panic # "listing"

\* C8: GetArtifacts never stops short of returning to its caller, whatever
\* fails on the way.
C8_AlwaysReturns == mainPc = "returned" \/ ENABLED Next

-----------------------------------------------------------------------------
(* getFolder: lines 64-117 *)

\* lines 65-73: the keys of expectedFolders
ExpectedNames == {"bill", "devices", "html", "logs", "report", "test_result", "tests"}

\* line 77: the number of attempts
gfAttempts == 5

Category(name) == ArtifactTree(<<runId, name>>, FALSE, name)

\* the decoded body of a response: an empty or undecodable body gives no node
GfListings ==
    { << >>,
      <<Category("bill"), Category("devices"), Category("html"), Category("logs")>>,
      <<Category("report"), Category("test_result"), Category("tests")>>,
      <<Category("logs"), Category("extra")>>,
      <<Category("bill"), Category("devices"), Category("html"), Category("logs"),
        Category("report"), Category("test_result"), Category("tests")>> }

\* what SendGetRequest gives: no response or body, or a body
GfResponses ==
    {[nil |-> TRUE, folders |-> << >>]} \cup {[nil |-> FALSE, folders |-> l] : l \in GfListings}

NamesOf(folders) == {folders[k].Name : k \in 1..Len(folders)}

\* lines 92-96: the names found so far, looking only at the current listing
Found_CurrentListingOnly(found, folders) == NamesOf(folders) \cap ExpectedNames

\* lines 92-96: the names of expectedFolders that are true after a listing
Found(found, folders) == found \cup (NamesOf(folders) \cap ExpectedNames)

\* line 82: what a missed response leaves in lastRetrievedFolders, were it
\* stored like a listing
AfterNil_Forget(last) == << >>

\* line 82: continue leaves lastRetrievedFolders as it is
AfterNil(last) == last

\* lines 77-113: one iteration of the loop
getFolderAttempt ==
    /\ gfPc = "loop" /\ gfI < gfAttempts
    /\ \E resp \in GfResponses :
         /\ gfHistory' = Append(gfHistory, resp)
         /\ IF resp.nil
            THEN \* lines 81-83
                 /\ gfI' = gfI + 1
                 /\ lastRetrievedFolders' = AfterNil(lastRetrievedFolders)
                 /\ UNCHANGED <<gfPc, expectedFolders, gfResult>>
            ELSE /\ expectedFolders' = Found(expectedFolders, resp.folders)
                 /\ IF expectedFolders' = ExpectedNames
                    THEN \* lines 107-109
                         /\ gfResult' = resp.folders
                         /\ gfPc' = "done"
                         /\ UNCHANGED <<gfI, lastRetrievedFolders>>
                    ELSE \* line 112
                         /\ lastRetrievedFolders' = resp.folders
                         /\ gfI' = gfI + 1
                         /\ UNCHANGED <<gfPc, gfResult>>
    /\ UNCHANGED <<ctlVars, poolVars, envVars, fsVars, postVars, dlVars>>

\* line 116: the loop is over, return &lastRetrievedFolders
getFolderExhausted ==
    /\ gfPc = "loop" /\ gfI >= gfAttempts
    /\ gfResult' = lastRetrievedFolders
    /\ gfPc' = "done"
    /\ UNCHANGED <<gfI, expectedFolders, lastRetrievedFolders, gfHistory>>
    /\ UNCHANGED <<ctlVars, poolVars, envVars, fsVars, postVars, dlVars>>

InitDiscovery ==
    /\ PipelineAt("idle", EmptyTree, 0, 0)
    /\ gfPc = "loop"
    /\ gfI = 0
    /\ expectedFolders = {}
    /\ lastRetrievedFolders = << >>
    /\ gfResult = << >>
    /\ gfHistory = << >>
    /\ DlIdle

NextDiscovery == getFolderAttempt \/ getFolderExhausted

SpecDiscovery == InitDiscovery /\ [][NextDiscovery]_vars

\* the expected names seen in the first k attempts
SeenBy(k) ==
    ExpectedNames \cap
        UNION {IF gfHistory[j].nil THEN {} ELSE NamesOf(gfHistory[j].folders) : j \in 1..k}

CompleteAt(k) == SeenBy(k) = ExpectedNames

RECURSIVE LastObtained(_)
LastObtained(h) ==
    IF h = << >> THEN << >>
    ELSE IF h[Len(h)].nil THEN LastObtained(SubSeq(h, 1, Len(h) - 1))
    ELSE h[Len(h)].folders

-----------------------------------------------------------------------------
(* Local trees for the post-processing steps *)

Entry(path, content) == [path |-> path, content |-> content]

LocalFile(origin, ro) == Content(origin, TRUE, FALSE, "raw", FALSE, << >>, ro)

Doc(origin, fmt, hasAttachments, attachments, ro) ==
    Content(origin, TRUE, TRUE, fmt, hasAttachments, attachments, ro)

\* no two entries at one path, and no file where a directory is needed
ValidEntries(F) ==
    \A a \in F, b \in F :
        a # b => (a.path # b.path /\ ~IsPrefix(a.path, b.path))

TreeOf(F, D) ==
    [files |-> [p \in {e.path : e \in F} |-> (CHOOSE e \in F : e.path = p).content],
     dirs |-> {<< >>} \cup UNION {MkdirAll(Front(e.path)) : e \in F}
                      \cup UNION {MkdirAll(d) : d \in D}]

TreesOf(candidates, extraDirs) ==
    { TreeOf(x[1], x[2]) :
        x \in { y \in (SUBSET candidates) \X (SUBSET extraDirs) :
                  /\ ValidEntries(y[1])
                  /\ \A e \in y[1], d \in y[2] : ~IsPrefix(e.path, d) } }

-----------------------------------------------------------------------------
(* relocateContents on its own *)

RelocCandidates ==
    { Entry(<<runId, "a.txt">>, LocalFile(<<"new", "a.txt">>, FALSE)),
      Entry(<<runId, "x.txt">>, LocalFile(<<"new", "x.txt">>, FALSE)),
      Entry(<<runId, "logs", "shot.png">>, LocalFile(<<"new", "shot.png">>, FALSE)),
      Entry(<<runId, runId, "x.txt">>, LocalFile(<<"nested", "x.txt">>, FALSE)),
      Entry(<<runId>>, LocalFile(<<"old", "run">>, FALSE)),
      Entry(<<"existing.txt">>, LocalFile(<<"old", "existing.txt">>, FALSE)),
      Entry(<<"a.txt">>, LocalFile(<<"old", "a.txt">>, FALSE)),
      Entry(<<"a.txt">>, LocalFile(<<"old", "a.txt">>, TRUE)),
      Entry(<<"a.txt", "x.txt">>, LocalFile(<<"old", "a.txt", "x.txt">>, FALSE)),
      Entry(<<"logs", "old.png">>, LocalFile(<<"old", "old.png">>, FALSE)),
      Entry(<<"logs">>, LocalFile(<<"old", "logs">>, FALSE)) }

RelocTrees == TreesOf(RelocCandidates, {runIdDir})

InitRelocate ==
    /\ \E fs \in RelocTrees : PipelineAt("relocate", fs, 0, MaxFaults)
    /\ GfIdle
    /\ DlIdle

NextRelocate == RelocateContents

SpecRelocate == InitRelocate /\ [][NextRelocate]_vars

\* the files below the run directory when relocateContents started
RunFiles == {q \in DOMAIN beforeRelocate.files : Len(q) >= 2 /\ q[1] = runId}

\* the paths the merge writes to
Merged == {Tail(q) : q \in Under(beforeRelocate, runIdDir) \ {runIdDir}}

\* the paths that were at the root, outside the run directory
Outside ==
    {q \in (DOMAIN beforeRelocate.files) \cup beforeRelocate.dirs : ~IsPrefix(runIdDir, q)}

Untouched(q) ==
    /\ q \in DOMAIN beforeRelocate.files =>
          (q \in DOMAIN files /\ files[q] = beforeRelocate.files[q])
    /\ q \in beforeRelocate.dirs => q \in dirs

NothingDeleted ==
    /\ \A q \in DOMAIN beforeRelocate.files : q \in DOMAIN files
    /\ \A q \in beforeRelocate.dirs : q \in dirs

\* the files below the run directory hold what they held
RunContentKept ==
    \A q \in DOMAIN beforeRelocate.files :
        IsPrefix(runIdDir, q) => (q \in DOMAIN files /\ files[q] = beforeRelocate.files[q])

\* the paths that were at the root outside the run directory still exist
OutsideKept ==
    \A q \in Outside : IF q \in beforeRelocate.dirs THEN q \in dirs ELSE q \in DOMAIN files

\* the statement of C17 as the specification words it: when the copy fails
\* nothing is deleted and the run directory still exists with the content
\* it had; the deletion takes away nothing that was at the root outside the
\* run directory
C17_AsStated ==
    /\ relocated = "copyFailed" =>
          /\ NothingDeleted
          /\ Exists(FS, runIdDir)
          /\ RunContentKept
    /\ relocated \in {"ok", "removeFailed"} => OutsideKept

\* the files below the run directory that a nested run directory,
\* R/<runId>/<runId>, is not merged over
NotMergedOver == {q \in RunFiles : ~IsRegular(beforeRelocate, <<runId>> \o q)}

\* C17 (amended): when the copy of relocateContents fails nothing is
\* deleted: every file and directory is still there, the run directory
\* included, and every file below it holds what it held unless
\* R/<runId>/<runId>/p was copied over it; when the copy succeeds the
\* deletion takes away nothing that was at the root outside the run
\* directory.
C17_NothingDeletedWhenCopyFails ==
    /\ relocated = "copyFailed" =>
          /\ NothingDeleted
          /\ Exists(FS, runIdDir)
          /\ \A q \in NotMergedOver :
                q \in DOMAIN files /\ files[q] = beforeRelocate.files[q]
    /\ relocated \in {"ok", "removeFailed"} => OutsideKept

\* C17 witness: the copy failed after a.txt had been merged; the run
\* directory still holds a.txt and existing.txt is still at the root
C17_FailedHalfWay ==
    /\ relocated = "copyFailed"
    /\ ~IsRegular(beforeRelocate, <<"a.txt">>)
    /\ IsRegular(FS, <<"a.txt">>)
    /\ IsRegular(FS, <<runId, "a.txt">>)
    /\ IsRegular(FS, <<"existing.txt">>)

-----------------------------------------------------------------------------
(* updateJsonPaths on its own, run more than once *)

\* runs of updateJsonPaths in a row
MaxRepairs == 2

RemoteRefs ==
    <<Attachment(TRUE, <<runId, "logs", "shot.png">>),
      Attachment(TRUE, <<runId, "logs", "missing.png">>),
      Attachment(FALSE, << >>)>>

RepairCandidates ==
    { Entry(Append(allureResultsDir, "a.json"),
            Doc(<<"doc", "refs">>, "raw", TRUE, RemoteRefs, FALSE)),
      Entry(Append(allureResultsDir, "a.json"),
            Doc(<<"doc", "plain">>, "raw", FALSE, << >>, FALSE)),
      Entry(Append(allureResultsDir, "a.json"),
            Content(<<"doc", "broken">>, TRUE, FALSE, "raw", FALSE, << >>, FALSE)),
      Entry(Append(allureResultsDir, "a.json"),
            Doc(<<"doc", "readonly">>, "raw", TRUE, RemoteRefs, TRUE)),
      Entry(Append(allureResultsDir, "a.json"),
            Doc(<<"doc", "repaired">>, "indented", TRUE,
                <<Attachment(TRUE, <<"..", "..", "logs", "shot.png">>)>>, FALSE)),
      Entry(Append(allureResultsDir, "a.json"),
            Doc(<<"doc", "empty">>, "raw", TRUE, << >>, FALSE)),
      Entry(Append(allureResultsDir, "b.json"),
            Doc(<<"doc", "self">>, "raw", TRUE,
                <<Attachment(TRUE, <<"b.json">>), Attachment(TRUE, << >>),
                  Attachment(TRUE, <<"shot.png">>)>>, FALSE)),
      Entry(Append(allureResultsDir, "c.txt"),
            Doc(<<"doc", "notjson">>, "raw", TRUE, RemoteRefs, FALSE)),
      Entry(allureResultsDir \o <<"d.json", "x.txt">>, LocalFile(<<"old", "x.txt">>, FALSE)),
      Entry(Append(allureResultsDir, "shot.png"), LocalFile(<<"shot", "results">>, FALSE)),
      Entry(<<"logs", "shot.png">>, LocalFile(<<"shot", "logs">>, FALSE)),
      Entry(<<"html", "shot.png">>, LocalFile(<<"shot", "html">>, FALSE)),
      Entry(<<"shot.png">>, LocalFile(<<"shot", "root">>, FALSE)),
      Entry(<<"allure-results">>, LocalFile(<<"old", "allure-results">>, FALSE)) }

RepairTrees == TreesOf(RepairCandidates, {})

\* updateJsonPaths called again on the tree it left
UpdateJsonPathsAgain ==
    /\ Alive /\ mainPc = "returned"
    /\ repairs \in 1..(MaxRepairs - 1)
    /\ files' = updateJsonPaths(FS)
    /\ beforeRepair' = files
    /\ repairs' = repairs + 1
    /\ UNCHANGED <<ctlVars, poolVars, envVars, dirs, relocated, beforeRelocate, gfVars, dlVars>>

InitRepair ==
    /\ \E fs \in RepairTrees : PipelineAt("update", fs, 0, 0)
    /\ GfIdle
    /\ DlIdle

NextRepair == UpdateJsonPaths \/ UpdateJsonPathsAgain

SpecRepair == InitRepair /\ [][NextRepair]_vars

\* C10: a run of updateJsonPaths that follows another leaves every file,
\* and so every attachments[*].source, as the run before it left them.
C10_RepairIsIdempotent == repairs >= 2 => files = beforeRepair

\* C10 witness: two runs, the first of which rewrote a remote reference to
\* the relative path of the local file
C10_RepairedThenRepeated ==
    /\ repairs = 2
    /\ Append(allureResultsDir, "a.json") \in DOMAIN files
    /\ LET c == files[Append(allureResultsDir, "a.json")]
       IN /\ c.origin = <<"doc", "refs">>
          /\ c.fmt = "indented"
          /\ c.attachments[1].source = <<"..", "..", "logs", "shot.png">>

\* the .json files directly inside the report metadata directory
MetadataDocs(f) ==
    {p \in DOMAIN f : Front(p) = allureResultsDir /\ IsJsonName(Last(p))}

\* C11: after a run of updateJsonPaths, every .json file of the report
\* metadata directory that had no attachments array holds exactly what it
\* held before the run.
C11_NoAttachmentsNoWrite ==
    repairs >= 1 =>
        \A p \in MetadataDocs(beforeRepair) :
            ~beforeRepair[p].hasAttachments =>
                (p \in DOMAIN files /\ files[p] = beforeRepair[p])

\* C11 witness: one run that rewrote a document with attachments and left
\* the raw document without attachments next to it as it was
C11_PlainLeftRewrittenNeighbour ==
    /\ repairs = 1
    /\ Append(allureResultsDir, "a.json") \in DOMAIN files
    /\ Append(allureResultsDir, "b.json") \in DOMAIN files
    /\ files[Append(allureResultsDir, "a.json")].origin = <<"doc", "plain">>
    /\ files[Append(allureResultsDir, "a.json")].parses
    /\ files[Append(allureResultsDir, "a.json")].fmt = "raw"
    /\ files[Append(allureResultsDir, "b.json")].fmt = "indented"

-----------------------------------------------------------------------------
(* downloadFile on its own *)

\* every string over IdChars of at most n characters
RECURSIVE Strings(_)
Strings(n) ==
    IF n = 0 THEN {<< >>}
    ELSE LET shorter == Strings(n - 1)
         IN shorter \cup {Append(s, c) : s \in shorter, c \in IdChars}

InitDownload ==
    /\ PipelineAt("idle", EmptyTree, 0, 0)
    /\ GfIdle
    /\ dlPc = "call"
    /\ dlFileID \in Strings(MaxIdLen)
    /\ requestKey = << >>
    /\ dlDirs = {whereToSave, <<".">>}
    /\ created = << >>
    /\ written = << >>
    /\ dlErr = "nil"

NextDownload == DownloadFileCall

SpecDownload == InitDownload /\ [][NextDownload]_vars

\* the value the content endpoint decodes from a key: %23 is '#'
RECURSIVE Unescape(_)
Unescape(s) ==
    IF Len(s) >= 3 /\ SubSeq(s, 1, 3) = <<"%", "2", "3">>
    THEN <<"#">> \o Unescape(SubSeq(s, 4, Len(s)))
    ELSE IF s = << >> THEN << >>
    ELSE <<Head(s)>> \o Unescape(Tail(s))

CharsOf(s) == {s[k] : k \in 1..Len(s)}

\* every segment of the identifier is a name: not empty, not "." or ".."
PlainID(id) ==
    \A k \in 1..Len(Split(id, "/")) : Split(id, "/")[k] \notin {<< >>, <<".">>, DotDot}

\* C12: a call of downloadFile that returns no error had a non-empty
\* fileID, wrote the content to the path <whereToSave>/<fileID> (the very
\* characters of fileID, '#' included, when its segments are names) and
\* requested the key that is fileID with every '#' replaced by %23.
C12_LocalPathKeepsHashRequestEscapesIt ==
    (dlPc = "returned" /\ dlErr = "nil") =>
        /\ dlFileID # << >>
        /\ written = Clean(whereToSave \o <<"/">> \o dlFileID)
        /\ PlainID(dlFileID) => written = whereToSave \o <<"/">> \o dlFileID
        /\ "#" \notin CharsOf(requestKey)
        /\ Len(requestKey) = Len(dlFileID) + 2 * Len(SelectSeq(dlFileID, LAMBDA c : c = "#"))
        /\ Unescape(requestKey) = dlFileID

\* C12 witness: the identifier a/a# landed at R/a/a# and was requested as
\* a/a%23
C12_HashLanded ==
    /\ dlPc = "returned" /\ dlErr = "nil"
    /\ dlFileID = <<"a", "/", "a", "#">>
    /\ written = <<"R", "/", "a", "/", "a", "#">>
    /\ requestKey = <<"a", "/", "a", "%", "2", "3">>

-----------------------------------------------------------------------------
(* Further properties of the pipeline *)

Released == {t \in TaskIds : taskPc[t] \in {"send", "exit", "done"}}

\* C13: the tokens in sem are those of the tasks between lines 141 and 143:
\* a task past line 143 has taken its token out, whether downloadFile gave
\* an error or not, and once every submitted task has finished sem is empty.
C13_GateNeverLeaks ==
    /\ sem = Cardinality(holders)
    /\ holders \cap Released = {}
    /\ AllTasksFinished => sem = 0

\* C13 witness: the walk is over, a failed and a successful download have
\* both finished and the gate is empty
C13_DrainedAfterFailure ==
    /\ mainPc = "wait" /\ AllTasksFinished /\ sem = 0
    /\ \E t \in TaskIds : taskPc[t] = "done" /\ taskErr[t] # "nil"
    /\ \E t \in TaskIds : taskPc[t] = "done" /\ taskErr[t] = "nil"

Sending == {t \in TaskIds : taskPc[t] = "send"}

\* C14: errors is closed only once every submitted task has finished, no
\* send on the closed channel ever happens, and whenever a task is at its
\* send the channel is open and the sink goroutine is receiving, so the
\* send can complete.
C14_ClosedAfterBarrierSinkReceives ==
    /\ errorsClosed => (AllTasksFinished /\ wg = 0)
    /\ panic # "send"
    /\ Sending # {} => (~errorsClosed /\ sinkPc = "recv")

\* C14 witness: the sink received two failures, then the channel was closed
\* and the sink ended
C14_TwoFailuresThenClosed ==
    /\ errorsClosed /\ sinkPc = "exited"
    /\ Cardinality(reported) = 2

\* the statement of C16 as the specification words it: a run that walked
\* several root folders had two of them under expansion at the same time
C16_AsStated ==
    (mainPc = "wait" /\ Len(rootFolders) >= 2) => peakRootWalks >= 2

\* C16 (amended): the root folders are walked one after another by the
\* goroutine of GetArtifacts: at any time the frames of the walk descend
\* from one root folder, the last one the range loop reached, so the
\* expansions of two root folders never overlap.
C16_RootsWalkedOneAfterAnother ==
    /\ Cardinality(RootsInFlight(walk)) <= 1
    /\ peakRootWalks <= 1
    /\ walk # << >> => RootsInFlight(walk) = {rootIdx - 1}

\* C16 witness: the second root folder is under expansion while a download
\* found under the first has not finished
C16_SecondRootAfterFirst ==
    /\ rootIdx = 3 /\ walk # << >>
    /\ \E t \in TaskIds :
          /\ taskPc[t] \in {"acquire", "download"}
          /\ IsPrefix(rootFolders[1].ID, t)

-----------------------------------------------------------------------------
(* The pipeline when one content request never returns *)

\* the download task whose content request may hang
HungTask == FileID(2)

\* every step of the walk, of the download tasks and of the sink, but the
\* return of the content request of HungTask
Progress ==
    \/ CallGetFolder \/ Setup \/ RangeRootFolders
    \/ ListFolder \/ Submit \/ Recurse \/ WalkReturn
    \/ \E t \in TaskIds : Acquire(t)
    \/ \E t \in TaskIds \ {HungTask} : downloadFile(t)
    \/ \E t \in TaskIds : Release(t)
    \/ \E t \in TaskIds : Send(t)
    \/ \E t \in TaskIds : Done(t)
    \/ Wait \/ Close \/ SinkExit

\* the goroutines are scheduled fairly; nothing makes the request of
\* HungTask return
SpecHang == InitGate /\ [][Next]_vars /\ WF_vars(Progress)

OthersFinished == \A t \in Submitted \ {HungTask} : taskPc[t] = "done"

\* C15: whether or not the content request of HungTask ever returns, the
\* walk ends and every other download task that was submitted gets a slot
\* and finishes: the pipeline passes the barrier, or waits at it for
\* HungTask alone.
C15_OthersFinishDespiteHang ==
    <>(OthersFinished /\ mainPc \in {"wait", "close", "relocate", "update", "returned"})

\* C15 witness: the request of HungTask is still out, holding one slot, and
\* the five other tasks have finished
C15_HungAloneInGate ==
    /\ taskPc[HungTask] = "download" /\ sem = 1
    /\ Cardinality({t \in TaskIds : taskPc[t] = "done"}) = GateFiles - 1
    /\ mainPc = "wait"

-----------------------------------------------------------------------------
(* The walk and the gate *)

\* the steps of the goroutine of GetArtifacts during the walk
WalkerStep == RangeRootFolders \/ ListFolder \/ Submit \/ Recurse \/ WalkReturn

\* the tasks started by the go statement that have not passed line 141
Waiting == {t \in TaskIds : taskPc[t] = "acquire"}

\* C18: while the walk is under way the walking goroutine always has a step
\* to take, however many tokens sem holds: a submitted task waits for its
\* slot in its own goroutine, counted by the barrier and outside the gate.
C18_WalkerNeverBlocksOnGate ==
    /\ (Alive /\ mainPc = "walk") => ENABLED WalkerStep
    /\ Waiting \cap holders = {}
    /\ wg >= Cardinality(Waiting) + sem

\* C18 witness: the walk has ended with more tasks waiting for a slot than
\* the gate has slots
C18_MoreWaitingThanSlots ==
    /\ mainPc = "wait"
    /\ Cardinality(Waiting) > maxConcurrentDownloads

-----------------------------------------------------------------------------
(* The nodes of the root listing *)

\* the positions of rootFolders the range loop of lines 50-52 has reached
RootsReached == 1..(rootIdx - 1)

\* the call of getFoldersRecursively for root node k has not yet made its
\* listing request
RootCallPending(k) ==
    /\ Len(walk) = 1 /\ walk[1].root = k /\ walk[1].pc = "call"

\* the file nodes of the listings the walk has requested so far
LeavesListed ==
    UNION {{Children(f, nFiles)[j].ID : j \in {i \in 1..Len(Children(f, nFiles)) :
                                                  Children(f, nFiles)[i].IsFile}} :
           f \in listed}

\* C19: every node of the root listing the range loop has reached is the
\* subject of a listing request on its id, whether or not it is flagged as
\* a file; no download task is ever started for a node of the root listing,
\* only for file nodes of listings requested by the walk.
C19_RootNodesListedNeverDownloaded ==
    /\ \A k \in RootsReached :
          \/ rootFolders[k].ID \in listed
          \/ RootCallPending(k)
    /\ \A k \in 1..Len(rootFolders) :
          rootFolders[k].ID \in TaskIds =>
             /\ taskPc[rootFolders[k].ID] = "none"
             /\ attempts[rootFolders[k].ID] = 0
    /\ Submitted \subseteq LeavesListed

\* C19 witness: the walk is over; the root node top.txt, flagged as a file,
\* was listed and not downloaded, and a leaf of another root was submitted
C19_RootFileListed ==
    /\ mainPc = "wait"
    /\ \E k \in 1..Len(rootFolders) :
          /\ rootFolders[k].IsFile
          /\ rootFolders[k].ID \in listed
          /\ taskPc[rootFolders[k].ID] = "none"
    /\ Submitted # {}

-----------------------------------------------------------------------------
(* The order of release, report and wg.Done in a download goroutine *)

\* the goroutines started at line 139 whose deferred wg.Done has not run
Unfinished ==
    {t \in TaskIds : taskPc[t] \in {"acquire", "download", "release", "send", "exit"}}

\* C20: a task at the send of line 145 has already taken its token out of
\* sem and is still counted by the barrier; a task that returned an error
\* is past that send, and so counts as finished, only once the sink has
\* received the error.
C20_ReleaseThenReportThenDone ==
    /\ \A t \in Sending :
          /\ t \notin holders
          /\ taskErr[t] # "nil"
          /\ sem <= Cardinality(Unfinished \ Sending)
    /\ wg = Cardinality(Unfinished)
    /\ \A t \in TaskIds :
          (taskPc[t] \in {"exit", "done"} /\ taskErr[t] # "nil")
             => <<t, taskErr[t]>> \in reported

\* C20 witness: a failed task has reported and finished while another
\* failed task is at its send, outside the gate, and a third holds a slot
C20_SendingOutsideGate ==
    \E t, u, v \in TaskIds :
       /\ taskPc[t] = "send" /\ t \notin holders
       /\ taskPc[u] = "done" /\ <<u, taskErr[u]>> \in reported
       /\ taskPc[v] = "download" /\ v \in holders

====
